---- MODULE Spec2Model ----
(***************************************************************************)
(* A model of realalg: decimal intervals with exact integer bounds         *)
(* (realalg/interval.py) and the number field's cache of generator power   *)
(* intervals together with the sign decision built on it                   *)
(* (realalg/algebraic.py).                                                 *)
(*                                                                         *)
(* An Interval is the record [lower, upper, precision, accuracy] of the    *)
(* object's four attributes.  A Python string is a sequence of one         *)
(* character strings.  A call that may raise returns a record              *)
(* [ok, val, err]: ok = FALSE stands for the raised exception err.         *)
(***************************************************************************)
EXTENDS Integers, Sequences, FiniteSets, TLC

VARIABLES
    call,      \* pure-function harness: the call being made (name and arguments)
    result,    \* pure-function harness: what the call returned or raised
    cur,       \* interval harness: the Interval object the program holds
    last,      \* interval harness: the last constructor call or operation
    field,     \* a RealNumberField: its polynomial's data, _precision, _intervals
    ret,       \* the last call of field.intervals: argument and outcome
    cmp        \* the last comparison of two elements of the field

vars == <<call, result, cur, last, field, ret, cmp>>

----------------------------------------------------------------------------
(* Bounds of the model.                                                    *)

\* Interval harness: bounds drawn for lower/upper, and the largest precision.
MaxVal == 3
MaxPrec == 2
\* Longest string handed to from_string.
MaxStrLen == 4
\* Fractions handed to from_fraction: |numerator| and denominator.
MaxNum == 3
MaxDen == 4

----------------------------------------------------------------------------
(* Integer helpers.                                                        *)

Abs(x) == IF x < 0 THEN -x ELSE x
Max(a, b) == IF a >= b THEN a ELSE b
Min(a, b) == IF a <= b THEN a ELSE b
MinOf(S) == CHOOSE x \in S : \A y \in S : x <= y
MaxOf(S) == CHOOSE x \in S : \A y \in S : x >= y

RECURSIVE Pow10(_)
Pow10(n) == IF n <= 0 THEN 1 ELSE 10 * Pow10(n - 1)

\* len(str(n)) for n >= 0
RECURSIVE NumDigits(_)
NumDigits(n) == IF n < 10 THEN 1 ELSE 1 + NumDigits(n \div 10)

RECURSIVE Gcd(_, _)
Gcd(a, b) == IF b = 0 THEN Abs(a) ELSE Gcd(b, a % b)

\* x*y divmod m for 0 <= x < m, y >= 0, by the decimal digits of y, so that no
\* intermediate exceeds 19*m: Python's integers are unbounded, and TLC's
\* are 32 bits wide.
RECURSIVE MulDivMod(_, _, _)
MulDivMod(x, y, m) ==
    IF y = 0 THEN <<0, 0>>
    ELSE LET t == MulDivMod(x, y \div 10, m)
             v == 10 * t[2] + (y % 10) * x
         IN  <<10 * t[1] + v \div m, v % m>>

\* a * b // m (floor division, m > 0) without overflowing 32 bits
MulFloorDiv(a, b, m) ==
    LET x == Abs(a)
        y == Abs(b)
        t == MulDivMod(x % m, y, m)
        q == (x \div m) * y + t[1]
    IN  IF (a < 0) = (b < 0) \/ a = 0 \/ b = 0 THEN q
        ELSE IF t[2] = 0 THEN -q ELSE -q - 1

----------------------------------------------------------------------------
(* Python strings.                                                         *)

Digits == <<"0", "1", "2", "3", "4", "5", "6", "7", "8", "9">>
IsDigit(c) == \E k \in 1..10 : Digits[k] = c
DigitVal(c) == (CHOOSE k \in 1..10 : Digits[k] = c) - 1
Contains(string, c) == \E k \in 1..Len(string) : string[k] = c

\* '0' * n
Zeros(n) == [k \in 1..Max(n, 0) |-> "0"]

\* string[:n]
Slice(string, n) ==
    IF n >= 0 THEN SubSeq(string, 1, Min(n, Len(string)))
    ELSE SubSeq(string, 1, Max(Len(string) + n, 0))

\* string.split(sep)
RECURSIVE split(_, _)
split(string, sep) ==
    IF ~Contains(string, sep) THEN <<string>>
    ELSE LET k == CHOOSE j \in 1..Len(string) :
                    string[j] = sep /\ \A h \in 1..(j - 1) : string[h] # sep
         IN  <<SubSeq(string, 1, k - 1)>>
                 \o split(SubSeq(string, k + 1, Len(string)), sep)

\* int(string) accepts an optional sign followed by one or more digits
IsSign(c) == c = "-" \/ c = "+"
IntBody(string) == IF string # <<>> /\ IsSign(string[1]) THEN Tail(string) ELSE string
IntOk(string) ==
    /\ IntBody(string) # <<>>
    /\ \A k \in 1..Len(IntBody(string)) : IsDigit(IntBody(string)[k])

RECURSIVE NatVal(_)
NatVal(ds) ==
    IF ds = <<>> THEN 0
    ELSE 10 * NatVal(SubSeq(ds, 1, Len(ds) - 1)) + DigitVal(ds[Len(ds)])

IntVal(string) ==
    IF string[1] = "-" THEN -NatVal(IntBody(string)) ELSE NatVal(IntBody(string))

----------------------------------------------------------------------------
(* class Interval                                                          *)

NoInterval == [lower |-> 0, upper |-> 0, precision |-> 0, accuracy |-> 0]
Return(v) == [ok |-> TRUE, val |-> v, err |-> "none"]
Raise(e) == [ok |-> FALSE, val |-> NoInterval, err |-> e]

\* the accuracy attribute set by Interval.__init__
Accuracy(lower, upper, precision) ==
    IF upper = lower THEN precision ELSE precision - NumDigits(Abs(upper - lower))

NewObject(lower, upper, precision) ==
    [lower |-> lower, upper |-> upper, precision |-> precision,
     accuracy |-> Accuracy(lower, upper, precision)]

\* Interval.__init__ with the emptiness check dropped
IntervalUnchecked(lower, upper, precision) ==
    IF precision < 1 THEN Raise("ValueError")
    ELSE Return(NewObject(lower, upper, precision))

\* Interval.__init__
Interval(lower, upper, precision) ==
    IF lower > upper THEN Raise("ValueError")
    ELSE IF precision < 1 THEN Raise("ValueError")
    ELSE Return(NewObject(lower, upper, precision))

\* Interval.from_string; precision is <<>> for None and <<p>> for p
from_string(string, precision) ==
    IF ~Contains(string, ".") THEN Raise("ValueError")
    ELSE LET parts == split(string, ".")
             p == IF precision = <<>> THEN Len(parts[2]) ELSE precision[1]
         IN  IF Len(parts) # 2 THEN Raise("ValueError")
             ELSE LET i == parts[1]
                      r == parts[2]
                      digits == i \o Slice(r, p) \o Zeros(p - Len(r))
                  IN  IF ~IntOk(digits) THEN Raise("ValueError")
                      ELSE LET lower == IntVal(digits)
                               upper == lower + Pow10(Max(p - Len(r), 0))
                           IN  Interval(lower, upper, p)

\* Interval.from_integer
from_integer(integer, precision) ==
    Interval(integer * Pow10(precision), integer * Pow10(precision), precision)

\* Interval.from_fraction
from_fraction(fraction, precision) ==
    Interval((fraction.numerator * Pow10(precision) - 1) \div fraction.denominator,
             (fraction.numerator * Pow10(precision) + 1) \div fraction.denominator,
             precision)

\* Interval.__add__ of two Intervals
add(self, other) ==
    IF self.precision # other.precision THEN Raise("AssertionError")
    ELSE LET values == {self.lower + other.lower, self.upper + other.upper}
         IN  Interval(MinOf(values), MaxOf(values), self.precision)

\* Interval.__neg__
neg(self) == Interval(-self.upper, -self.lower, self.precision)

\* Interval.__sub__
sub(self, other) ==
    IF neg(other).ok THEN add(self, neg(other).val) ELSE neg(other)

\* Interval.__mul__ of two Intervals
mul(self, other) ==
    IF self.precision # other.precision THEN Raise("AssertionError")
    ELSE LET m == Pow10(self.precision)
             values == {MulFloorDiv(self.lower, other.lower, m),
                        MulFloorDiv(self.upper, other.lower, m),
                        MulFloorDiv(self.lower, other.upper, m),
                        MulFloorDiv(self.upper, other.upper, m)}
         IN  Interval(MinOf(values), MaxOf(values), self.precision)

\* Interval.simplify
simplify(self, new_precision) ==
    IF new_precision > self.precision THEN Raise("AssertionError")
    ELSE LET d == self.precision - new_precision
         IN  Interval(self.lower \div Pow10(d), self.upper \div Pow10(d), new_precision)

\* Interval.sign
sign(self) ==
    IF self.upper < 0 THEN -1
    ELSE IF self.lower > 0 THEN 1
    ELSE 0

----------------------------------------------------------------------------
(* Inputs shared by the harnesses.                                         *)

\* every non-empty string over alphabet of at most n characters
StringsOver(alphabet, n) == UNION {[1..k -> alphabet] : k \in 1..n}

\* every Interval object with bounds in -v..v and precision in 1..p
IntervalsWithin(v, p) ==
    {NewObject(l, u, q) : l \in -v..v, u \in -v..v, q \in 1..p}
        \cap {I \in [lower : Int, upper : Int, precision : Int, accuracy : Int] :
                I.lower <= I.upper}

\* fractions.Fraction keeps lowest terms and a positive denominator
Fractions ==
    {f \in {[numerator |-> n, denominator |-> q] :
                n \in -MaxNum..MaxNum, q \in 1..MaxDen} :
        Gcd(f.numerator, f.denominator) = 1}

Pending == [ok |-> FALSE, val |-> NoInterval, err |-> "pending"]
NoCall == [op |-> "none", x |-> NoInterval, y |-> NoInterval, string |-> <<>>,
           fraction |-> [numerator |-> 0, denominator |-> 1], precision |-> <<>>]
NoLast == [op |-> "none", empty |-> FALSE, nonpositive |-> FALSE, res |-> Pending]
NoField == [name |-> "none", _precision |-> 0, _intervals |-> <<>>]
NoRet == [precision |-> 0, before |-> 0, recomputed |-> FALSE, status |-> "none",
          val |-> <<>>]
NoCmp == [a |-> [coefficients |-> <<>>], b |-> [coefficients |-> <<>>],
          status |-> "none", eq |-> FALSE, gt |-> FALSE, lt |-> FALSE,
          sab |-> 0, sba |-> 0]

----------------------------------------------------------------------------
(* The pure-function harness: Init draws one call of a constructor or      *)
(* operation with its arguments, and the call's action applies it.         *)

CalcAlphabet == {"0", "1", "9", ".", "-", "e"}

CalcCalls ==
    {[NoCall EXCEPT !.op = "mul", !.x = c[1], !.y = c[2]] :
        c \in {d \in IntervalsWithin(MaxVal, MaxPrec) \X IntervalsWithin(MaxVal, MaxPrec) :
                 d[1].precision = d[2].precision}}
    \cup {[NoCall EXCEPT !.op = "simplify", !.x = c[1], !.precision = <<c[2]>>] :
        c \in {d \in IntervalsWithin(MaxVal, MaxPrec) \X (1..MaxPrec) :
                 d[2] <= d[1].precision}}
    \cup {[NoCall EXCEPT !.op = "from_fraction", !.fraction = c[1], !.precision = <<c[2]>>] :
        c \in Fractions \X (1..MaxPrec)}
    \cup {[NoCall EXCEPT !.op = "from_string", !.string = c[1], !.precision = c[2]] :
        c \in StringsOver(CalcAlphabet, MaxStrLen)
                \X ({<<>>} \cup {<<q>> : q \in 1..(MaxPrec + 1)})}

InitCalc ==
    /\ call \in CalcCalls
    /\ result = Pending
    /\ cur = NoInterval /\ last = NoLast
    /\ field = NoField /\ ret = NoRet /\ cmp = NoCmp

CalcMul ==
    /\ call.op = "mul" /\ result = Pending
    /\ result' = mul(call.x, call.y)
    /\ UNCHANGED <<call, cur, last, field, ret, cmp>>

CalcSimplify ==
    /\ call.op = "simplify" /\ result = Pending
    /\ result' = simplify(call.x, call.precision[1])
    /\ UNCHANGED <<call, cur, last, field, ret, cmp>>

CalcFromFraction ==
    /\ call.op = "from_fraction" /\ result = Pending
    /\ result' = from_fraction(call.fraction, call.precision[1])
    /\ UNCHANGED <<call, cur, last, field, ret, cmp>>

CalcFromString ==
    /\ call.op = "from_string" /\ result = Pending
    /\ result' = from_string(call.string, call.precision)
    /\ UNCHANGED <<call, cur, last, field, ret, cmp>>

NextCalc == CalcMul \/ CalcSimplify \/ CalcFromFraction \/ CalcFromString

SpecCalc == InitCalc /\ [][NextCalc]_vars

----------------------------------------------------------------------------
(* The interval harness: a program that holds one Interval object, cur,    *)
(* and replaces it by the result of a constructor call or of an operation  *)
(* on it.  A call that raises leaves cur as it was.  last records the      *)
(* call: its name, whether its arguments asked for an empty interval       *)
(* (lower > upper) or a precision below 1, and what it returned or raised. *)

SampleStrings ==
    { <<"1", ".", "5">>, <<"-", ".", "5">>, <<"-", "1", ".", "9", "9">>, <<"1", "5">>,
      <<"1", ".", "5", ".">>, <<"e", ".", "1">>, <<".">>, <<"1", ".", "5", "e", "-", "5">> }

InRange(I) == -MaxVal <= I.lower /\ I.upper <= MaxVal /\ I.precision <= MaxPrec

\* the record of a call, and the object the program holds after it
Called(op, empty, nonpositive, res) ==
    [op |-> op, empty |-> empty, nonpositive |-> nonpositive, res |-> res]
Held(res) == IF res.ok THEN res.val ELSE cur

InitInterval ==
    /\ cur = from_integer(0, 1).val
    /\ last = NoLast
    /\ call = NoCall /\ result = Pending
    /\ field = NoField /\ ret = NoRet /\ cmp = NoCmp

New ==
    \E lower \in -MaxVal..MaxVal, upper \in -MaxVal..MaxVal, precision \in 0..MaxPrec :
        /\ last' = Called("Interval", lower > upper, precision < 1,
                          Interval(lower, upper, precision))
        /\ cur' = Held(Interval(lower, upper, precision))
        /\ UNCHANGED <<call, result, field, ret, cmp>>

FromString ==
    \E string \in SampleStrings, precision \in {<<>>} \cup {<<q>> : q \in 0..MaxPrec} :
        /\ last' = Called("from_string", FALSE, precision # <<>> /\ precision[1] < 1,
                          from_string(string, precision))
        /\ cur' = Held(from_string(string, precision))
        /\ UNCHANGED <<call, result, field, ret, cmp>>

FromInteger ==
    \E integer \in -1..1, precision \in 0..MaxPrec :
        /\ last' = Called("from_integer", FALSE, precision < 1,
                          from_integer(integer, precision))
        /\ cur' = Held(from_integer(integer, precision))
        /\ UNCHANGED <<call, result, field, ret, cmp>>

FromFraction ==
    \E fraction \in Fractions, precision \in 0..MaxPrec :
        /\ last' = Called("from_fraction", FALSE, precision < 1,
                          from_fraction(fraction, precision))
        /\ cur' = Held(from_fraction(fraction, precision))
        /\ UNCHANGED <<call, result, field, ret, cmp>>

Add ==
    /\ InRange(cur)
    /\ \E other \in IntervalsWithin(MaxVal, MaxPrec) :
        /\ last' = Called("add", FALSE, FALSE, add(cur, other))
        /\ cur' = Held(add(cur, other))
    /\ UNCHANGED <<call, result, field, ret, cmp>>

Sub ==
    /\ InRange(cur)
    /\ \E other \in IntervalsWithin(MaxVal, MaxPrec) :
        /\ last' = Called("sub", FALSE, FALSE, sub(cur, other))
        /\ cur' = Held(sub(cur, other))
    /\ UNCHANGED <<call, result, field, ret, cmp>>

Neg ==
    /\ last' = Called("neg", FALSE, FALSE, neg(cur))
    /\ cur' = Held(neg(cur))
    /\ UNCHANGED <<call, result, field, ret, cmp>>

Mul ==
    /\ InRange(cur)
    /\ \E other \in IntervalsWithin(MaxVal, MaxPrec) :
        /\ last' = Called("mul", FALSE, FALSE, mul(cur, other))
        /\ cur' = Held(mul(cur, other))
    /\ UNCHANGED <<call, result, field, ret, cmp>>

Simplify ==
    \E new_precision \in 0..MaxPrec :
        /\ last' = Called("simplify", FALSE, new_precision < 1,
                          simplify(cur, new_precision))
        /\ cur' = Held(simplify(cur, new_precision))
        /\ UNCHANGED <<call, result, field, ret, cmp>>

NextInterval ==
    \/ New \/ FromString \/ FromInteger \/ FromFraction
    \/ Add \/ Sub \/ Neg \/ Mul \/ Simplify

SpecInterval == InitInterval /\ [][NextInterval]_vars

----------------------------------------------------------------------------
(* class RealNumberField                                                   *)

\* Largest precision asked of field.intervals.
MaxPrecision == 3

Frac(n, d) == [numerator |-> n, denominator |-> d]

\* The polynomials fields are built from.  What the computer-algebra and the
\* root-isolation engines report of each is part of the record: place is the
\* decimal expansion of the chosen real root sp_place (sign, significant
\* digits, exponent of the leading digit) and int_powers[i+1] is
\* int(sp_place**i).
Polynomials ==
    { [name |-> "x^2 - 2, largest root", coefficients |-> <<Frac(-2, 1), Frac(0, 1), Frac(1, 1)>>,
       index |-> -1, int_powers |-> <<1, 1>>,
       place |-> [neg |-> FALSE, exp |-> 0, digits |-> <<1, 4, 1, 4, 2, 1, 3, 5, 6, 2, 3, 7>>]],
      [name |-> "x^2 - 2, smallest root", coefficients |-> <<Frac(-2, 1), Frac(0, 1), Frac(1, 1)>>,
       index |-> 0, int_powers |-> <<1, -1>>,
       place |-> [neg |-> TRUE, exp |-> 0, digits |-> <<1, 4, 1, 4, 2, 1, 3, 5, 6, 2, 3, 7>>]],
      [name |-> "x^2 - 3, largest root", coefficients |-> <<Frac(-3, 1), Frac(0, 1), Frac(1, 1)>>,
       index |-> -1, int_powers |-> <<1, 1>>,
       place |-> [neg |-> FALSE, exp |-> 0, digits |-> <<1, 7, 3, 2, 0, 5, 0, 8, 0, 7, 5, 6>>]],
      [name |-> "x^2 - 24, largest root", coefficients |-> <<Frac(-24, 1), Frac(0, 1), Frac(1, 1)>>,
       index |-> -1, int_powers |-> <<1, 4>>,
       place |-> [neg |-> FALSE, exp |-> 0, digits |-> <<4, 8, 9, 8, 9, 7, 9, 4, 8, 5, 5, 6>>]],
      [name |-> "x^2 - 26, largest root", coefficients |-> <<Frac(-26, 1), Frac(0, 1), Frac(1, 1)>>,
       index |-> -1, int_powers |-> <<1, 5>>,
       place |-> [neg |-> FALSE, exp |-> 0, digits |-> <<5, 0, 9, 9, 0, 1, 9, 5, 1, 3, 5, 9>>]],
      [name |-> "x^2 - 39, largest root", coefficients |-> <<Frac(-39, 1), Frac(0, 1), Frac(1, 1)>>,
       index |-> -1, int_powers |-> <<1, 6>>,
       place |-> [neg |-> FALSE, exp |-> 0, digits |-> <<6, 2, 4, 4, 9, 9, 7, 9, 9, 8, 3, 9>>]],
      [name |-> "x^2 - x - 1, largest root", coefficients |-> <<Frac(-1, 1), Frac(-1, 1), Frac(1, 1)>>,
       index |-> -1, int_powers |-> <<1, 1>>,
       place |-> [neg |-> FALSE, exp |-> 0, digits |-> <<1, 6, 1, 8, 0, 3, 3, 9, 8, 8, 7, 4>>]],
      [name |-> "x^2 - x - 1, smallest root", coefficients |-> <<Frac(-1, 1), Frac(-1, 1), Frac(1, 1)>>,
       index |-> 0, int_powers |-> <<1, 0>>,
       place |-> [neg |-> TRUE, exp |-> -1, digits |-> <<6, 1, 8, 0, 3, 3, 9, 8, 8, 7, 4, 9>>]],
      [name |-> "x^3 - 2", coefficients |-> <<Frac(-2, 1), Frac(0, 1), Frac(0, 1), Frac(1, 1)>>,
       index |-> -1, int_powers |-> <<1, 1, 1>>,
       place |-> [neg |-> FALSE, exp |-> 0, digits |-> <<1, 2, 5, 9, 9, 2, 1, 0, 4, 9, 8, 9>>]],
      [name |-> "x - 2", coefficients |-> <<Frac(-2, 1), Frac(1, 1)>>,
       index |-> -1, int_powers |-> <<1>>,
       place |-> [neg |-> FALSE, exp |-> 0, digits |-> <<2, 0, 0, 0, 0, 0, 0, 0, 0, 0, 0, 0>>]],
      [name |-> "2x - 1", coefficients |-> <<Frac(-1, 1), Frac(2, 1)>>,
       index |-> -1, int_powers |-> <<1>>,
       place |-> [neg |-> FALSE, exp |-> -1, digits |-> <<5, 0, 0, 0, 0, 0, 0, 0, 0, 0, 0, 0>>]],
      [name |-> "100000x - 1", coefficients |-> <<Frac(-1, 1), Frac(100000, 1)>>,
       index |-> -1, int_powers |-> <<1>>,
       place |-> [neg |-> FALSE, exp |-> -5, digits |-> <<1, 0, 0, 0, 0, 0, 0, 0, 0, 0, 0, 0>>]] }

\* str(n) for n >= 0
RECURSIVE NatToStr(_)
NatToStr(n) ==
    IF n < 10 THEN <<Digits[n + 1]>> ELSE NatToStr(n \div 10) \o <<Digits[(n % 10) + 1]>>

\* the integer written by the first n of the digits ds
RECURSIVE DigitsVal(_, _)
DigitsVal(ds, n) == IF n = 0 THEN 0 ELSE 10 * DigitsVal(ds, n - 1) + ds[n]

\* str(sp.N(sp_place, dps)): the root rounded to dps significant digits, all
\* of them printed, in fixed-point notation when the leading digit's exponent
\* lies strictly between min(-(dps // 3), -5) and dps, else in e notation
N(place, dps) ==
    LET head == DigitsVal(place.digits, dps)
        rounded == IF place.digits[dps + 1] >= 5 THEN head + 1 ELSE head
        carry == rounded = Pow10(dps)
        mantissa == IF carry THEN Pow10(dps - 1) ELSE rounded
        exp == IF carry THEN place.exp + 1 ELSE place.exp
        ds == NatToStr(mantissa)
        minus == IF place.neg THEN <<"-">> ELSE <<>>
    IN  IF Min(-(dps \div 3), -5) < exp /\ exp < dps
        THEN IF exp >= 0
             THEN minus \o SubSeq(ds, 1, exp + 1) \o <<".">> \o SubSeq(ds, exp + 2, dps)
             ELSE minus \o <<"0", ".">> \o Zeros(-exp - 1) \o ds
        ELSE minus \o <<ds[1], ".">> \o SubSeq(ds, 2, dps)
                 \o <<"e", IF exp < 0 THEN "-" ELSE "+">> \o NatToStr(Abs(exp))

\* Interval ** power: the base interval raised to a power by repeated
\* interval multiplication
\* a product whose first factor was itself computed: an exception raised
\* while computing it propagates
Times(computed, other) == IF computed.ok THEN mul(computed.val, other) ELSE computed

RECURSIVE pow(_, _)
pow(self, power) ==
    IF power = 0 THEN from_integer(1, self.precision)
    ELSE Times(pow(self, power - 1), self)

\* RealNumberField.__init__ (the attributes the cache reads)
RealNumberField(polynomial) ==
    [name |-> polynomial.name,
     coefficients |-> polynomial.coefficients,
     index |-> polynomial.index,
     degree |-> Len(polynomial.coefficients) - 1,
     sp_place |-> polynomial.place,
     _precision |-> 0,
     _intervals |-> <<>>,
     _bound |-> MaxOf({NumDigits(Abs(polynomial.int_powers[i])) :
                          i \in 1..(Len(polynomial.coefficients) - 1)})]

AllOk(results) == \A k \in 1..Len(results) : results[k].ok
Vals(results) == [k \in 1..Len(results) |-> results[k].val]

\* what a call of a method leaves and gives: the object after the call, and
\* the list returned or the exception raised
Outcome(self, status, val) == [self |-> self, status |-> status, val |-> val]

\* the return statement of RealNumberField.intervals: <<>> stands for None
SimplifiedList(self, out) ==
    IF AllOk(out) THEN Outcome(self, "returned", Vals(out))
    ELSE Outcome(self, "AssertionError", <<>>)

Simplified(self, precision) ==
    IF self._intervals = <<>> THEN Outcome(self, "TypeError", <<>>)
    ELSE SimplifiedList(self, [k \in 1..Len(self._intervals) |->
                                  simplify(self._intervals[k], precision)])

\* self._intervals = [I**i for i in range(self.degree)], and the return
StorePowers(self, powers, precision) ==
    IF ~AllOk(powers) THEN Outcome(self, "ValueError", <<>>)
    ELSE Simplified([self EXCEPT !._intervals = Vals(powers)], precision)

\* the recomputation from the parsed approximation I on: self is the field
\* with its watermark already raised
FromApproximation(self, I, precision) ==
    IF ~I.ok THEN Outcome(self, I.err, <<>>)
    ELSE StorePowers(self, [k \in 1..self.degree |-> pow(I.val, k - 1)], precision)

\* the body of "if precision > self._precision" in RealNumberField.intervals
Recompute(self, precision, working_precision) ==
    FromApproximation([self EXCEPT !._precision = precision],
                      from_string(N(self.sp_place, working_precision),
                                  <<working_precision>>),
                      precision)

\* RealNumberField.intervals recomputing whenever the precision differs
intervals_on_any_change(self, precision) ==
    IF precision <= 0 THEN Outcome(self, "AssertionError", <<>>)
    ELSE IF precision # self._precision
    THEN Recompute(self, precision, precision + self.degree * self._bound + 1)
    ELSE Simplified(self, precision)

\* RealNumberField.intervals sizing the working precision from the watermark
\* as it was before the call
intervals_stale_watermark(self, precision) ==
    IF precision <= 0 THEN Outcome(self, "AssertionError", <<>>)
    ELSE IF precision > self._precision
    THEN Recompute(self, precision, self._precision + self.degree * self._bound + 1)
    ELSE Simplified(self, precision)

\* RealNumberField.intervals
intervals(self, precision) ==
    IF precision <= 0 THEN Outcome(self, "AssertionError", <<>>)
    ELSE IF precision > self._precision
    THEN Recompute(self, precision, precision + self.degree * self._bound + 1)
    ELSE Simplified(self, precision)

----------------------------------------------------------------------------
(* The field harness: one field, built from one of the polynomials, and a  *)
(* caller asking it for intervals at any precision in any order.  ret      *)
(* records the call: its argument, the watermark it found, whether it      *)
(* recomputed, and the list it returned or the exception it raised.        *)

InitField ==
    /\ field \in {RealNumberField(polynomial) : polynomial \in Polynomials}
    /\ ret = NoRet
    /\ call = NoCall /\ result = Pending
    /\ cur = NoInterval /\ last = NoLast /\ cmp = NoCmp

CallIntervals ==
    \E precision \in 0..MaxPrecision :
        LET out == intervals(field, precision)
        IN  /\ field' = out.self
            /\ ret' = [precision |-> precision, before |-> field._precision,
                       recomputed |-> precision > field._precision,
                       status |-> out.status, val |-> out.val]
            /\ UNCHANGED <<call, result, cur, last, cmp>>

NextField == CallIntervals

SpecField == InitField /\ [][NextField]_vars

----------------------------------------------------------------------------
(* class RealAlgebraic: an element is the record of its coefficients, the  *)
(* Fractions of lmbda^0, lmbda^1, ... with no trailing zero coefficient.   *)

\* Coefficients of the elements compared: |numerator| and denominator of the
\* constant term.
MaxCoef == 2
MaxCoefDen == 2

IsZero(fraction) == fraction.numerator = 0

\* Fraction(n, d) in lowest terms, d > 0
Fraction(n, d) == Frac(n \div Gcd(n, d), d \div Gcd(n, d))

FractionAdd(f, g) ==
    Fraction(f.numerator * g.denominator + g.numerator * f.denominator,
             f.denominator * g.denominator)

FractionNeg(f) == Frac(-f.numerator, f.denominator)

\* the coefficients RealAlgebraic.__init__ reads off the lifted polynomial:
\* up to its degree, and [0] for the zero polynomial
RECURSIVE Coefficients(_)
Coefficients(cs) ==
    IF cs = <<>> THEN <<Frac(0, 1)>>
    ELSE IF IsZero(cs[Len(cs)]) THEN Coefficients(SubSeq(cs, 1, Len(cs) - 1))
    ELSE cs

\* RealAlgebraic.__init__
RealAlgebraic(cs) == [coefficients |-> Coefficients(cs)]

CoefficientAt(self, k) ==
    IF k <= Len(self.coefficients) THEN self.coefficients[k] ELSE Frac(0, 1)

\* RealAlgebraic.__neg__
elt_neg(self) ==
    RealAlgebraic([k \in 1..Len(self.coefficients) |-> FractionNeg(self.coefficients[k])])

\* RealAlgebraic.__add__ of two elements
elt_add(self, other) ==
    RealAlgebraic([k \in 1..Max(Len(self.coefficients), Len(other.coefficients)) |->
                      FractionAdd(CoefficientAt(self, k), CoefficientAt(other, k))])

\* RealAlgebraic.__sub__
elt_sub(self, other) == elt_add(self, elt_neg(other))

\* 10 ** (log_plus(numerator) + log_plus(denominator))
Height(fraction) == Max(1, Abs(fraction.numerator)) * fraction.denominator

RECURSIVE Product(_)
Product(ns) == IF ns = <<>> THEN 1 ELSE ns[1] * Product(Tail(ns))

RECURSIVE Power(_, _)
Power(b, e) == IF e = 0 THEN 1 ELSE b * Power(b, e - 1)

\* 10 ** field.length
FieldHeight(fld) ==
    Product([k \in 1..Len(fld.coefficients) |-> Height(fld.coefficients[k])])

\* int(self.length): the sum of logarithms is the logarithm of a product of
\* integers, and its integer part is that product's digit count less one
LengthFloor(fld, self) ==
    NumDigits(Product([k \in 1..Len(self.coefficients) |->
                          Height(self.coefficients[k]) * Power(FieldHeight(fld), k - 1)])) - 1

\* a sum whose first summand was itself computed
Plus(computed, other) == IF computed.ok THEN add(computed.val, other) ELSE computed

\* sum(terms): 0 + terms[1] + terms[2] + ..., where 0 + I is I + from_integer(0)
RECURSIVE Sum(_)
Sum(terms) ==
    IF Len(terms) = 1 THEN add(terms[1], from_integer(0, terms[1].precision).val)
    ELSE Plus(Sum(SubSeq(terms, 1, Len(terms) - 1)), terms[Len(terms)])

\* return interval.simplify(precision)
Narrowed(fld, simplified) ==
    IF simplified.ok THEN Outcome(fld, "returned", simplified.val)
    ELSE Outcome(fld, "AssertionError", NoInterval)

\* the sum of the products coeff * interval, simplified
Summed(fld, interval, precision) ==
    IF interval.ok THEN Narrowed(fld, simplify(interval.val, precision))
    ELSE Outcome(fld, "ValueError", NoInterval)

\* the products coeff * interval over zip(coeffs, intervals), summed
Weighted(fld, terms, precision) ==
    IF AllOk(terms) THEN Summed(fld, Sum(Vals(terms)), precision)
    ELSE Outcome(fld, "ValueError", NoInterval)

\* RealAlgebraic.interval from the return of field.intervals on: got is the
\* field after that call with what the call returned or raised
Combined(self, got, working_precision, precision) ==
    IF got.status # "returned" THEN Outcome(got.self, got.status, NoInterval)
    ELSE Weighted(got.self,
                  [k \in 1..Min(Len(self.coefficients), Len(got.val)) |->
                      mul(from_fraction(self.coefficients[k], working_precision).val,
                          got.val[k])],
                  precision)

\* working_precision = int(precision + self.length + 1)
WorkingPrecision(fld, self, precision) == precision + LengthFloor(fld, self) + 1

\* RealAlgebraic.interval; the field is passed in and handed back because
\* the call may raise the field's watermark and replace its cache
elt_interval(fld, self, precision) ==
    Combined(self, intervals(fld, WorkingPrecision(fld, self, precision)),
             WorkingPrecision(fld, self, precision), precision)

\* interval.sign() of what RealAlgebraic.interval returned, if it returned
SignOf(got) ==
    Outcome(got.self, got.status, IF got.status = "returned" THEN sign(got.val) ELSE 0)

\* RealAlgebraic.sign: val is the sign when the call returns
elt_sign(fld, self) == SignOf(elt_interval(fld, self, 2 * (LengthFloor(fld, self) + 1)))

----------------------------------------------------------------------------
(* The ordering harness: one field and a caller that picks two of its      *)
(* elements a, b and evaluates a == b, a > b and b > a in turn, each a     *)
(* call of sign on a difference; the calls share the field's cache.        *)
(* cmp.status is the caller's position: "picked", "eq" (a == b evaluated), *)
(* "gt" (a > b evaluated too), "returned" (all three), or the exception    *)
(* that ended the comparison.                                              *)

\* the fields of degree at most two whose generator, scaled to the largest
\* working precision the comparisons reach, stays below 2^31
OrderPolynomials ==
    {polynomial \in Polynomials :
        \/ Len(polynomial.coefficients) = 2
        \/ Len(polynomial.coefficients) = 3 /\ DigitsVal(polynomial.place.digits, 2) <= 21}

ConstantTerms ==
    {Fraction(n, d) : n \in -MaxCoef..MaxCoef, d \in 1..MaxCoefDen}

Elements(fld) ==
    IF fld.degree = 1 THEN {RealAlgebraic(<<c>>) : c \in ConstantTerms}
    ELSE {RealAlgebraic(<<c, Frac(m, 1)>>) : c \in ConstantTerms, m \in -1..1}

InitOrder ==
    /\ field \in {RealNumberField(polynomial) : polynomial \in OrderPolynomials}
    /\ cmp = NoCmp
    /\ call = NoCall /\ result = Pending
    /\ cur = NoInterval /\ last = NoLast /\ ret = NoRet

Pick ==
    /\ cmp.status \notin {"picked", "eq", "gt"}
    /\ \E a \in Elements(field), b \in Elements(field) :
        cmp' = [NoCmp EXCEPT !.a = a, !.b = b, !.status = "picked"]
    /\ UNCHANGED <<field, call, result, cur, last, ret>>

\* one evaluation of a sign inside a comparison: got is the field after
\* x.sign() with the sign returned or the exception raised, noted the record
\* of the comparison with the sign noted, next the caller's next position
AfterSign(got, noted, next) ==
    /\ field' = got.self
    /\ cmp' = IF got.status # "returned" THEN [cmp EXCEPT !.status = got.status]
              ELSE [noted EXCEPT !.status = next]
    /\ UNCHANGED <<call, result, cur, last, ret>>

NotedEq(s) == [cmp EXCEPT !.eq = (s = 0), !.sab = s]
NotedGt(s) == [cmp EXCEPT !.gt = (s = 1)]
NotedLt(s) == [cmp EXCEPT !.lt = (s = 1), !.sba = s]

\* a == b: (a - b).sign() == 0; the call may raise, and may escalate the cache
EvalEq ==
    /\ cmp.status = "picked"
    /\ \E got \in {elt_sign(field, elt_sub(cmp.a, cmp.b))} :
          AfterSign(got, NotedEq(got.val), "eq")

\* a > b: (a - b).sign() == +1
EvalGt ==
    /\ cmp.status = "eq"
    /\ \E got \in {elt_sign(field, elt_sub(cmp.a, cmp.b))} :
          AfterSign(got, NotedGt(got.val), "gt")

\* b > a: (b - a).sign() == +1
EvalLt ==
    /\ cmp.status = "gt"
    /\ \E got \in {elt_sign(field, elt_sub(cmp.b, cmp.a))} :
          AfterSign(got, NotedLt(got.val), "returned")

NextOrder == Pick \/ EvalEq \/ EvalGt \/ EvalLt

SpecOrder == InitOrder /\ [][NextOrder]_vars

----------------------------------------------------------------------------
(* Claims about the Interval constructors and operations.                  *)

Returned == result # Pending

\* C1: multiplication preserves containment: for Intervals A, B of equal
\* precision P and all integers a in A.lower..A.upper, b in B.lower..B.upper,
\* (A*B).lower * 10^P <= a*b <= (A*B).upper * 10^P.
C1_MulContainment ==
    (call.op = "mul" /\ Returned) =>
        /\ result.ok
        /\ \A a \in call.x.lower..call.x.upper, b \in call.y.lower..call.y.upper :
            /\ result.val.lower * Pow10(call.x.precision) <= a * b
            /\ a * b <= result.val.upper * Pow10(call.x.precision)

\* C2: from_fraction(p/q, precision) contains p/q:
\* lower * q <= p * 10^precision <= upper * q.
C2_FromFractionContainment ==
    (call.op = "from_fraction" /\ Returned) =>
        /\ result.ok
        /\ result.val.lower * call.fraction.denominator
              <= call.fraction.numerator * Pow10(call.precision[1])
        /\ call.fraction.numerator * Pow10(call.precision[1])
              <= result.val.upper * call.fraction.denominator

\* C3: simplify widens: with d = A.precision - new_precision,
\* result.lower * 10^d <= A.lower and A.upper <= result.upper * 10^d.
C3_SimplifyWidens ==
    (call.op = "simplify" /\ Returned) =>
        LET d == call.x.precision - call.precision[1]
        IN  /\ result.ok
            /\ result.val.lower * Pow10(d) <= call.x.lower
            /\ call.x.upper <= result.val.upper * Pow10(d)

\* a decimal literal: an optional sign, digits with exactly one point among
\* them and at least one digit
IsDecimalLiteral(string) ==
    /\ Len(split(string, ".")) = 2
    /\ \A k \in 1..Len(split(string, ".")[2]) : IsDigit(split(string, ".")[2][k])
    /\ IntOk(split(string, ".")[1] \o split(string, ".")[2])

\* the literal's value times 10^(number of fractional digits)
LiteralScaled(string) == IntVal(split(string, ".")[1] \o split(string, ".")[2])
FractionalDigits(string) == Len(split(string, ".")[2])

\* C10: from_string(s, precision) on a decimal literal s of either sign and
\* any precision >= 1 returns an interval of width
\* 10^max(precision - len(fractionalDigits), 0) units that contains the value
\* of s: lower / 10^precision <= value(s) <= upper / 10^precision.
C10_FromStringContainsLiteral ==
    (/\ call.op = "from_string" /\ Returned
     /\ call.precision # <<>> /\ IsDecimalLiteral(call.string)) =>
        LET P == call.precision[1]
            n == FractionalDigits(call.string)
        IN  /\ result.ok
            /\ result.val.precision = P
            /\ result.val.upper - result.val.lower = Pow10(Max(P - n, 0))
            /\ result.val.lower * Pow10(n) <= LiteralScaled(call.string) * Pow10(P)
            /\ LiteralScaled(call.string) * Pow10(P) <= result.val.upper * Pow10(n)

IsValid(I) == I.lower <= I.upper /\ I.precision >= 1

\* C6: every Interval that exists has lower <= upper and precision >= 1 after
\* any sequence of constructor calls and operations, and a construction asked
\* for lower > upper or for a precision below 1 raises and yields no interval.
C6_IntervalInvariant ==
    /\ IsValid(cur)
    /\ last.res.ok => (IsValid(last.res.val) /\ cur = last.res.val)
    /\ (last.empty \/ last.nonpositive) => (~last.res.ok /\ last.res.val = NoInterval)

\* C6's case: after operations produced a proper interval of precision 2, a
\* construction with lower > upper raised and left that interval in place.
C6_Witness ==
    /\ last.op = "Interval" /\ last.empty /\ ~last.res.ok
    /\ cur.precision = 2 /\ cur.lower < 0 /\ cur.upper > 0

----------------------------------------------------------------------------
(* Claims about the field's cache.                                         *)

\* what intervals(precision) gives on a field whose cache is still empty
FreshIntervals(self, precision) ==
    intervals([self EXCEPT !._precision = 0, !._intervals = <<>>], precision)

\* C4: a call intervals(p) with p above every precision asked before returns
\* exactly degree intervals, each of precision exactly p and of accuracy not
\* below p.  (Stated of the calls that return.)
C4_EscalationAccuracy ==
    (ret.status = "returned" /\ ret.recomputed) =>
        /\ Len(ret.val) = field.degree
        /\ \A k \in 1..Len(ret.val) :
            /\ ret.val[k].precision = ret.precision
            /\ ret.val[k].accuracy >= ret.precision

C8_WatermarkEscalates ==
    [][/\ field'._precision >= field._precision
       /\ ret'.precision <= field._precision =>
            (field'._precision = field._precision /\ field'._intervals = field._intervals)
       /\ ret'.precision > field._precision => field'._precision = ret'.precision]_vars

\* C8's case: a call below the watermark was answered and the watermark stayed.
C8_Witness ==
    /\ ret.status = "returned" /\ ret.precision < ret.before
    /\ field._precision = ret.before

\* C9: between calls, either _precision = 0 and nothing is cached, or
\* _intervals holds degree intervals, each of precision
\* _precision + degree * _bound + 1.
C9_CacheConsistent ==
    \/ field._precision = 0 /\ field._intervals = <<>>
    \/ /\ Len(field._intervals) = field.degree
       /\ \A k \in 1..Len(field._intervals) :
            field._intervals[k].precision
                = field._precision + field.degree * field._bound + 1

----------------------------------------------------------------------------
(* Claims about the ordering of elements.                                  *)

\* C5: for any two elements a, b of one field exactly one of a == b, a > b,
\* b > a holds, (b - a).sign() = -(a - b).sign(), and sign() always returns a
\* value in {-1, 0, 1}.
C5_OrderingTotality ==
    cmp.status \notin {"none", "picked", "eq", "gt"} =>
        /\ cmp.status = "returned"
        /\ cmp.sab \in {-1, 0, 1} /\ cmp.sba = -cmp.sab
        /\ \/ cmp.eq /\ ~cmp.gt /\ ~cmp.lt
           \/ ~cmp.eq /\ cmp.gt /\ ~cmp.lt
           \/ ~cmp.eq /\ ~cmp.gt /\ cmp.lt

====
